---- MODULE Spec2Model ----
(***************************************************************************)
(* Tenant resolution, tenant-scoped revenue cache, revenue aggregation and *)
(* the dashboard endpoint of the property-management backend               *)
(* (backend/app/core/tenant_resolver.py, services/cache.py,                *)
(* services/reservations.py, api/v1/dashboard.py).                         *)
(***************************************************************************)
EXTENDS Integers, Sequences, FiniteSets, TLC

VARIABLES
    reservations,   \* the reservations table: an append-only sequence of rows
    properties,     \* the properties table: a set of rows [id, tenant_id]
    cache,          \* the redis keyspace: key -> NoEntry or [value, ttl]
    pc,             \* per request: the await point it is suspended at
    req,            \* per request: how it entered and its arguments
    result,         \* per request: the local `result` of get_revenue_summary
    outcome,        \* per request: what the caller finally received
    trace,          \* per request: the collaborator calls it has made, in order
    args,           \* input of the pure-function specifications
    ret             \* output of the pure-function specifications

vars == <<reservations, properties, cache, pc, req, result, outcome, trace, args, ret>>

----------------------------------------------------------------------------
(* Bounds of the model *)

MaxReservations == 2      \* rows the reservations table may grow to
MaxIdLen == 2             \* longest id string drawn for the cache-key check
TickSeconds == 150        \* seconds that pass in one step of the clock
MaxYears == 3             \* calculate_monthly_revenue: years 2023 .. 2025
NumCallers == 2           \* concurrent get_revenue_summary calls

(* Program constants *)

\* a plausible slip: ten minutes instead of five
CacheTtlTenMinutes == 2 * 300

CacheTtlSeconds == 300    \* cache.py:52, the setex TTL

----------------------------------------------------------------------------
(* Python values.  A dict is a function from its keys; None, str, int and  *)
(* Decimal values carry their type so that a conversion can change it.     *)

PyNone == [py |-> "None"]
PyStr(s) == [py |-> "str", v |-> s]
PyInt(n) == [py |-> "int", v |-> n]

EmptyDict == [k \in {} |-> PyNone]

\* bool(v) for the values that occur: None and "" are falsy
Truthy(v) == v.py = "str" /\ v.v # ""

\* d.get(k)
DictGet(d, k) == IF k \in DOMAIN d THEN d[k] ELSE PyNone

----------------------------------------------------------------------------
(* services/cache.py: the cache key *)

\* a plausible slip: the key without the tenant
cache_key_no_tenant(tenant_id, property_id) == "revenue:" \o property_id

\* cache.py:27  cache_key = f"revenue:{tenant_id}:{property_id}"
cache_key(tenant_id, property_id) ==
    "revenue:" \o tenant_id \o ":" \o property_id

\* cache.py:69  the same f-string, built again by invalidate_revenue_cache
invalidate_cache_key(tenant_id, property_id) ==
    "revenue:" \o tenant_id \o ":" \o property_id

----------------------------------------------------------------------------
(* core/tenant_resolver.py *)

\* a plausible slip: app_metadata consulted before user_metadata
resolve_tenant_from_token_app_first(token_payload) ==
    IF "app_metadata" \in DOMAIN token_payload
       /\ Truthy(DictGet(token_payload["app_metadata"], "tenant_id"))
    THEN DictGet(token_payload["app_metadata"], "tenant_id")
    ELSE IF "user_metadata" \in DOMAIN token_payload
            /\ Truthy(DictGet(token_payload["user_metadata"], "tenant_id"))
    THEN DictGet(token_payload["user_metadata"], "tenant_id")
    ELSE IF Truthy(DictGet(token_payload, "tenant_id"))
    THEN DictGet(token_payload, "tenant_id")
    ELSE PyNone

\* tenant_resolver.py:14-42
resolve_tenant_from_token(token_payload) ==
    IF "user_metadata" \in DOMAIN token_payload
       /\ Truthy(DictGet(token_payload["user_metadata"], "tenant_id"))
    THEN DictGet(token_payload["user_metadata"], "tenant_id")
    ELSE IF "app_metadata" \in DOMAIN token_payload
            /\ Truthy(DictGet(token_payload["app_metadata"], "tenant_id"))
    THEN DictGet(token_payload["app_metadata"], "tenant_id")
    ELSE IF Truthy(DictGet(token_payload, "tenant_id"))
    THEN DictGet(token_payload, "tenant_id")
    ELSE PyNone

\* tenant_resolver.py:45-69: the root-level value is returned whenever the
\* key is present, whatever it holds
resolve_tenant_from_user(user_data) ==
    IF "tenant_id" \in DOMAIN user_data
    THEN user_data["tenant_id"]
    ELSE IF "user_metadata" \in DOMAIN user_data
            /\ Truthy(DictGet(user_data["user_metadata"], "tenant_id"))
    THEN DictGet(user_data["user_metadata"], "tenant_id")
    ELSE IF "app_metadata" \in DOMAIN user_data
            /\ Truthy(DictGet(user_data["app_metadata"], "tenant_id"))
    THEN DictGet(user_data["app_metadata"], "tenant_id")
    ELSE PyNone

\* `if token_payload:` is false for None and for the empty dict
PayloadGiven(token_payload) ==
    token_payload # PyNone /\ DOMAIN token_payload # {}

\* tenant_resolver.py:72-111.  user_id is not read by the body.
resolve_tenant_id(user_id, user_email, token_payload) ==
    IF PayloadGiven(token_payload)
       /\ Truthy(resolve_tenant_from_token(token_payload))
    THEN resolve_tenant_from_token(token_payload)
    ELSE IF user_email = "sunset@propertyflow.com" THEN PyStr("tenant-a")
    ELSE IF user_email = "ocean@propertyflow.com" THEN PyStr("tenant-b")
    ELSE IF user_email = "candidate@propertyflow.com" THEN PyStr("tenant-a")
    ELSE PyNone

----------------------------------------------------------------------------
(* Decimal and JSON *)

PyDecimal(cents) == [py |-> "Decimal", v |-> cents]

\* str(Decimal) of an amount held with two decimal places: "1.50", "0.05"
DecimalStr(cents) ==
    ToString(cents \div 100) \o "."
        \o (IF cents % 100 < 10 THEN "0" ELSE "") \o ToString(cents % 100)

\* cache.py:12-17 DecimalEncoder and json.dumps: str -> JSON string,
\* int -> JSON number, Decimal -> default() -> str(obj) -> JSON string
JsonOf(v) ==
    CASE v.py = "str" -> [json |-> "string", v |-> v.v]
      [] v.py = "int" -> [json |-> "number", v |-> v.v]
      [] v.py = "Decimal" -> [json |-> "string", v |-> DecimalStr(v.v)]
      [] OTHER -> [json |-> "null"]

json_dumps(d) == [k \in DOMAIN d |-> JsonOf(d[k])]

\* a plausible slip: the reader parses the total back into a number
json_loads_total_as_number(doc) ==
    [k \in DOMAIN doc |->
        IF k = "total" THEN [py |-> "float", v |-> doc[k].v]
        ELSE IF doc[k].json = "number" THEN [py |-> "int", v |-> doc[k].v]
        ELSE [py |-> "str", v |-> doc[k].v]]

\* json.loads: JSON string -> str, JSON number -> int, null -> None
PyOf(j) ==
    CASE j.json = "string" -> PyStr(j.v)
      [] j.json = "number" -> PyInt(j.v)
      [] OTHER -> PyNone

json_loads(doc) == [k \in DOMAIN doc |-> PyOf(doc[k])]

----------------------------------------------------------------------------
(* services/reservations.py: calculate_total_revenue *)

RECURSIVE SumAmounts(_)
SumAmounts(rows) ==
    IF rows = <<>> THEN 0 ELSE Head(rows).total_amount + SumAmounts(Tail(rows))

\* reservations.py:86-87  WHERE property_id = :property_id AND tenant_id = :tenant_id
MatchingRows(rows, property_id, tenant_id) ==
    SelectSeq(rows, LAMBDA r : r.property_id = property_id /\ r.tenant_id = tenant_id)

Raised(message) == [raised |-> message]

IsRaised(x) == DOMAIN x = {"raised"}

Summary(property_id, tenant_id, total, count) ==
    [property_id |-> PyStr(property_id), tenant_id |-> PyStr(tenant_id),
     total |-> PyStr(total), currency |-> PyStr("USD"), count |-> PyInt(count)]

\* a plausible slip: mock data when the store is down
calculate_total_revenue_mock(property_id, tenant_id, rows, store_ok) ==
    IF store_ok /\ MatchingRows(rows, property_id, tenant_id) # <<>>
    THEN Summary(property_id, tenant_id,
                 DecimalStr(SumAmounts(MatchingRows(rows, property_id, tenant_id))),
                 Len(MatchingRows(rows, property_id, tenant_id)))
    ELSE Summary(property_id, tenant_id, "0.00", 0)

\* reservations.py:60-124.  store_ok is false when the pool cannot be
\* initialised, has no session factory, or the query fails: every such
\* exception is caught at line 119 and raised again at line 124.
\* a plausible slip: the query without GROUP BY always yields one row, whose
\* SUM is NULL when nothing matches; Decimal(str(None)) then raises
calculate_total_revenue_no_group_by(property_id, tenant_id, rows, store_ok) ==
    IF ~store_ok \/ MatchingRows(rows, property_id, tenant_id) = <<>>
    THEN Raised("Failed to calculate revenue")
    ELSE Summary(property_id, tenant_id,
                 DecimalStr(SumAmounts(MatchingRows(rows, property_id, tenant_id))),
                 Len(MatchingRows(rows, property_id, tenant_id)))

calculate_total_revenue(property_id, tenant_id, rows, store_ok) ==
    IF ~store_ok
    THEN Raised("Failed to calculate revenue")
    ELSE IF MatchingRows(rows, property_id, tenant_id) # <<>>
    THEN Summary(property_id, tenant_id,
                 DecimalStr(SumAmounts(MatchingRows(rows, property_id, tenant_id))),
                 Len(MatchingRows(rows, property_id, tenant_id)))
    ELSE Summary(property_id, tenant_id, "0.00", 0)

\* cache.py:45-47: a Decimal total becomes its string
NormalizeTotal(res) ==
    IF "total" \in DOMAIN res /\ res["total"].py = "Decimal"
    THEN [res EXCEPT !["total"] = PyStr(DecimalStr(@.v))]
    ELSE res

----------------------------------------------------------------------------
(* api/v1/dashboard.py: the guards of get_dashboard_summary and its reply *)

HttpError(status, detail) == [status |-> status, detail |-> detail]

\* a plausible slip: the existence check filtered by id alone
PropertyCheckAnyTenant(rows, property_id, tenant_id) ==
    {r \in rows : r.id = property_id}

\* dashboard.py:29-35  .eq("id", property_id).eq("tenant_id", tenant_id)
PropertyCheck(rows, property_id, tenant_id) ==
    {r \in rows : r.id = property_id /\ r.tenant_id = tenant_id}

Pass == [status |-> 0, detail |-> "pass"]

Guarded(response, calls) == [response |-> response, calls |-> calls]

\* a plausible slip: the tenant guard left out
DashboardGuardsNoTenantCheck(user_tenant, property_id, rows, store_ok) ==
    IF ~store_ok
    THEN Guarded(HttpError(500, "Error validating property access"),
                 <<"property_check_failed">>)
    ELSE IF PropertyCheck(rows, property_id,
                          IF user_tenant.py = "str" THEN user_tenant.v ELSE "") = {}
    THEN Guarded(HttpError(500, "Error validating property access"), <<"property_check">>)
    ELSE Guarded(Pass, <<"property_check">>)

\* dashboard.py:19-48: the reply the guards end the request with, or Pass,
\* and the store lookups they made.  The HTTPException(404) of line 39 is
\* raised inside the try block of line 28; HTTPException is an Exception, so
\* the handler of line 43 catches it and raises the 500 of line 45 instead.
DashboardGuards(user_tenant, property_id, rows, store_ok) ==
    IF ~Truthy(user_tenant)
    THEN Guarded(HttpError(403, "User not associated with a tenant"), <<>>)
    ELSE IF ~store_ok
    THEN Guarded(HttpError(500, "Error validating property access"),
                 <<"property_check_failed">>)
    ELSE IF PropertyCheck(rows, property_id, user_tenant.v) = {}
    THEN Guarded(HttpError(500, "Error validating property access"), <<"property_check">>)
    ELSE Guarded(Pass, <<"property_check">>)

\* the largest total the store can hold, in cents
MaxCents == MaxReservations * 150

\* Decimal(str(total)) of a total held with two decimal places, in cents
ParseDecimal(total) ==
    IF total.py = "Decimal" THEN total.v
    ELSE CHOOSE cents \in 0 .. MaxCents : DecimalStr(cents) = total.v

\* float(total): the number the decimal text denotes, cents over 100
\* ("1.50" -> 1.5)
PyFloat(cents) == [py |-> "float", num |-> cents, den |-> 100]

\* dashboard.py:53-69: total_revenue is f"{...:.2f}" of the total (line 58
\* for a Decimal, line 61 otherwise) and total_revenue_float is float(total)
DashboardBody(revenue_data) ==
    [status |-> 200,
     property_id |-> revenue_data["property_id"],
     total_revenue |-> PyStr(DecimalStr(ParseDecimal(revenue_data["total"]))),
     total_revenue_float |-> PyFloat(ParseDecimal(revenue_data["total"])),
     currency |-> revenue_data["currency"],
     reservations_count |-> revenue_data["count"]]

----------------------------------------------------------------------------
(* The inputs *)

Tenants == {"t1", "t1:x"}
PropertyIds == {"p1", "x:p1"}
RequestedIds == PropertyIds \cup {"p9"}     \* "p9" is no tenant's property
Amounts == {150}                            \* cents: 1.50
UserTenants == {PyNone, PyStr("")} \cup {PyStr(t) : t \in Tenants}

SeqCallers == {1}                           \* Spec: one request at a time

NoEntry == [ttl |-> 0]
NoReq == [via |-> "none"]
NoResult == [none |-> TRUE]
NoOutcome == [kind |-> "none"]
NoArgs == [fn |-> "none"]
NoRet == [fn |-> "none"]

Keys == {cache_key(t, p) : t \in Tenants, p \in PropertyIds}

PropertyRows ==
    {[id |-> "p1", tenant_id |-> "t1:x"], [id |-> "x:p1", tenant_id |-> "t1"]}

TenantOf(c) == req[c].user_tenant.v

----------------------------------------------------------------------------
(* The state machine of the cache, the store and the requests *)

InitRequests(callers) ==
    /\ pc = [c \in callers |-> "idle"]
    /\ req = [c \in callers |-> NoReq]
    /\ result = [c \in callers |-> NoResult]
    /\ outcome = [c \in callers |-> NoOutcome]
    /\ trace = [c \in callers |-> <<>>]

\* the store, the cache and the requests before anything has happened
Baseline ==
    /\ reservations = <<>>
    /\ properties = PropertyRows
    /\ cache = [k \in Keys |-> NoEntry]
    /\ InitRequests(SeqCallers)

Init ==
    /\ Baseline
    /\ args = NoArgs
    /\ ret = NoRet

\* what the caller of get_revenue_summary receives: a direct caller the
\* summary or the exception, the dashboard its 200 body, or the 500 the
\* framework answers with when the handler lets an exception escape
Delivered(c, res) ==
    IF req[c].via = "direct"
    THEN IF IsRaised(res) THEN [kind |-> "raised", error |-> res.raised]
                          ELSE [kind |-> "returned", value |-> res]
    ELSE IF IsRaised(res) THEN [kind |-> "http", response |-> HttpError(500, "Internal Server Error")]
                          ELSE [kind |-> "http", response |-> DashboardBody(res)]

\* dashboard.py:13-51 up to the call of get_revenue_summary
DashboardRequest(c, user_tenant, property_id, store_ok) ==
    /\ pc[c] = "idle"
    /\ req' = [req EXCEPT ![c] = [via |-> "dashboard", user_tenant |-> user_tenant,
                                  property_id |-> property_id]]
    /\ LET g == DashboardGuards(user_tenant, property_id, properties, store_ok) IN
         /\ trace' = [trace EXCEPT ![c] = g.calls]
         /\ IF g.response = Pass
            THEN /\ pc' = [pc EXCEPT ![c] = "cache_get"]
                 /\ outcome' = outcome
            ELSE /\ pc' = [pc EXCEPT ![c] = "done"]
                 /\ outcome' = [outcome EXCEPT ![c] = [kind |-> "http", response |-> g.response]]
    /\ UNCHANGED <<reservations, properties, cache, result, args, ret>>

\* cache.py:19-27: get_revenue_summary called by another service
GetRevenueSummary(c, property_id, tenant_id) ==
    /\ pc[c] = "idle"
    /\ req' = [req EXCEPT ![c] = [via |-> "direct", user_tenant |-> PyStr(tenant_id),
                                  property_id |-> property_id]]
    /\ pc' = [pc EXCEPT ![c] = "cache_get"]
    /\ UNCHANGED <<reservations, properties, cache, result, outcome, trace, args, ret>>

\* a plausible slip: a hit renews the entry's time to live
CacheGetRenewing(c, cache_ok) ==
    /\ pc[c] = "cache_get"
    /\ trace' = [trace EXCEPT ![c] = Append(@, IF cache_ok THEN "cache_get" ELSE "cache_get_failed")]
    /\ LET key == cache_key(TenantOf(c), req[c].property_id) IN
         IF ~cache_ok
         THEN /\ pc' = [pc EXCEPT ![c] = "fallback"]
              /\ UNCHANGED <<result, outcome, cache>>
         ELSE IF cache[key] # NoEntry
         THEN /\ pc' = [pc EXCEPT ![c] = "done"]
              /\ result' = [result EXCEPT ![c] = json_loads(cache[key].value)]
              /\ outcome' = [outcome EXCEPT ![c] = Delivered(c, json_loads(cache[key].value))]
              /\ cache' = [cache EXCEPT ![key].ttl = CacheTtlSeconds]
         ELSE /\ pc' = [pc EXCEPT ![c] = "calculate"]
              /\ UNCHANGED <<result, outcome, cache>>
    /\ UNCHANGED <<reservations, properties, req, args, ret>>

\* cache.py:29-36: await redis_client.get(cache_key)
CacheGet(c, cache_ok) ==
    /\ pc[c] = "cache_get"
    /\ trace' = [trace EXCEPT ![c] = Append(@, IF cache_ok THEN "cache_get" ELSE "cache_get_failed")]
    /\ LET key == cache_key(TenantOf(c), req[c].property_id) IN
         IF ~cache_ok
         THEN /\ pc' = [pc EXCEPT ![c] = "fallback"]
              /\ UNCHANGED <<result, outcome>>
         ELSE IF cache[key] # NoEntry
         THEN /\ pc' = [pc EXCEPT ![c] = "done"]
              /\ result' = [result EXCEPT ![c] = json_loads(cache[key].value)]
              /\ outcome' = [outcome EXCEPT ![c] = Delivered(c, json_loads(cache[key].value))]
         ELSE /\ pc' = [pc EXCEPT ![c] = "calculate"]
              /\ UNCHANGED <<result, outcome>>
    /\ UNCHANGED <<reservations, properties, cache, req, args, ret>>

\* cache.py:42-47: await calculate_total_revenue(...), then the Decimal fix
Calculate(c, store_ok) ==
    /\ pc[c] = "calculate"
    /\ trace' = [trace EXCEPT ![c] = Append(@, IF store_ok THEN "calculate" ELSE "calculate_failed")]
    /\ LET r == calculate_total_revenue(req[c].property_id, TenantOf(c), reservations, store_ok) IN
         IF IsRaised(r)
         THEN /\ pc' = [pc EXCEPT ![c] = "fallback"]
              /\ UNCHANGED result
         ELSE /\ pc' = [pc EXCEPT ![c] = "setex"]
              /\ result' = [result EXCEPT ![c] = NormalizeTotal(r)]
    /\ UNCHANGED <<reservations, properties, cache, req, outcome, args, ret>>

\* a plausible slip: the writer treats the key as a lock and waits while
\* another call's entry is there
CacheSetexWhenAbsent(c, cache_ok) ==
    /\ pc[c] = "setex"
    /\ cache[cache_key(TenantOf(c), req[c].property_id)] = NoEntry
    /\ LET key == cache_key(TenantOf(c), req[c].property_id) IN
         IF cache_ok
         THEN /\ cache' = [cache EXCEPT ![key] =
                              [value |-> json_dumps(result[c]), ttl |-> CacheTtlSeconds]]
              /\ trace' = [trace EXCEPT ![c] = Append(@, "setex")]
              /\ pc' = [pc EXCEPT ![c] = "done"]
              /\ outcome' = [outcome EXCEPT ![c] = Delivered(c, result[c])]
         ELSE /\ pc' = [pc EXCEPT ![c] = "fallback"]
              /\ trace' = [trace EXCEPT ![c] = Append(@, "setex_failed")]
              /\ UNCHANGED <<cache, outcome>>
    /\ UNCHANGED <<reservations, properties, req, result, args, ret>>

\* cache.py:50-56: await redis_client.setex(cache_key, 300, json.dumps(...))
CacheSetex(c, cache_ok) ==
    /\ pc[c] = "setex"
    /\ LET key == cache_key(TenantOf(c), req[c].property_id) IN
         IF cache_ok
         THEN /\ cache' = [cache EXCEPT ![key] =
                              [value |-> json_dumps(result[c]), ttl |-> CacheTtlSeconds]]
              /\ trace' = [trace EXCEPT ![c] = Append(@, "setex")]
              /\ pc' = [pc EXCEPT ![c] = "done"]
              /\ outcome' = [outcome EXCEPT ![c] = Delivered(c, result[c])]
         ELSE /\ pc' = [pc EXCEPT ![c] = "fallback"]
              /\ trace' = [trace EXCEPT ![c] = Append(@, "setex_failed")]
              /\ UNCHANGED <<cache, outcome>>
    /\ UNCHANGED <<reservations, properties, req, result, args, ret>>

\* a plausible slip: the except block lets the error go instead of computing
FallbackCalculateReraise(c, store_ok) ==
    /\ pc[c] = "fallback"
    /\ trace' = [trace EXCEPT ![c] = Append(@, IF store_ok THEN "calculate" ELSE "calculate_failed")]
    /\ outcome' = [outcome EXCEPT ![c] = Delivered(c, Raised("Error in get_revenue_summary"))]
    /\ pc' = [pc EXCEPT ![c] = "done"]
    /\ UNCHANGED <<reservations, properties, cache, req, result, args, ret>>

\* cache.py:58-62: except Exception: return await calculate_total_revenue(...)
FallbackCalculate(c, store_ok) ==
    /\ pc[c] = "fallback"
    /\ trace' = [trace EXCEPT ![c] = Append(@, IF store_ok THEN "calculate" ELSE "calculate_failed")]
    /\ LET r == calculate_total_revenue(req[c].property_id, TenantOf(c), reservations, store_ok) IN
         /\ result' = [result EXCEPT ![c] = IF IsRaised(r) THEN @ ELSE r]
         /\ outcome' = [outcome EXCEPT ![c] = Delivered(c, r)]
    /\ pc' = [pc EXCEPT ![c] = "done"]
    /\ UNCHANGED <<reservations, properties, cache, req, args, ret>>

\* the request is over; its slot takes the next one
Return(c) ==
    /\ pc[c] = "done"
    /\ pc' = [pc EXCEPT ![c] = "idle"]
    /\ req' = [req EXCEPT ![c] = NoReq]
    /\ result' = [result EXCEPT ![c] = NoResult]
    /\ outcome' = [outcome EXCEPT ![c] = NoOutcome]
    /\ trace' = [trace EXCEPT ![c] = <<>>]
    /\ UNCHANGED <<reservations, properties, cache, args, ret>>

\* cache.py:65-74
InvalidateRevenueCache(property_id, tenant_id, cache_ok) ==
    /\ cache' = IF cache_ok
                THEN [cache EXCEPT ![invalidate_cache_key(tenant_id, property_id)] = NoEntry]
                ELSE cache
    /\ UNCHANGED <<reservations, properties, pc, req, result, outcome, trace, args, ret>>

\* the store changes: a reservation is booked
AddReservation(tenant_id, property_id, amount) ==
    /\ Len(reservations) < MaxReservations
    /\ reservations' = Append(reservations,
            [tenant_id |-> tenant_id, property_id |-> property_id, total_amount |-> amount])
    /\ UNCHANGED <<properties, cache, pc, req, result, outcome, trace, args, ret>>

\* time passes: redis counts every TTL down and drops the expired keys
Tick ==
    /\ \E k \in Keys : cache[k] # NoEntry
    /\ cache' = [k \in Keys |->
                   IF cache[k] = NoEntry \/ cache[k].ttl <= TickSeconds
                   THEN NoEntry
                   ELSE [cache[k] EXCEPT !.ttl = @ - TickSeconds]]
    /\ UNCHANGED <<reservations, properties, pc, req, result, outcome, trace, args, ret>>

Next ==
    \/ \E c \in SeqCallers, u \in UserTenants, p \in RequestedIds, ok \in BOOLEAN :
          DashboardRequest(c, u, p, ok)
    \/ \E c \in SeqCallers, p \in PropertyIds, t \in Tenants : GetRevenueSummary(c, p, t)
    \/ \E c \in SeqCallers, ok \in BOOLEAN : CacheGet(c, ok)
    \/ \E c \in SeqCallers, ok \in BOOLEAN : Calculate(c, ok)
    \/ \E c \in SeqCallers, ok \in BOOLEAN : CacheSetex(c, ok)
    \/ \E c \in SeqCallers, ok \in BOOLEAN : FallbackCalculate(c, ok)
    \/ \E c \in SeqCallers : Return(c)
    \/ \E p \in PropertyIds, t \in Tenants, ok \in BOOLEAN : InvalidateRevenueCache(p, t, ok)
    \/ \E t \in Tenants, p \in PropertyIds, a \in Amounts : AddReservation(t, p, a)
    \/ Tick

Spec == Init /\ [][Next]_vars

----------------------------------------------------------------------------
(* The cache key as a function of every pair of (tenant_id, property_id)   *)
(* pairs of non-empty ids over the alphabet {a, :}                         *)

IdAlphabet == {"a", ":"}

RECURSIVE Ids(_)
Ids(n) ==
    IF n <= 1 THEN IdAlphabet
    ELSE Ids(n - 1) \cup {s \o ch : s \in Ids(n - 1), ch \in IdAlphabet}

Builders == {"get_revenue_summary", "invalidate_revenue_cache"}

KeyBuiltBy(builder, tenant_id, property_id) ==
    IF builder = "get_revenue_summary"
    THEN cache_key(tenant_id, property_id)
    ELSE invalidate_cache_key(tenant_id, property_id)

InitKey ==
    /\ Baseline
    /\ args \in {[fn |-> "keys", t1 |-> t1, p1 |-> p1, t2 |-> t2, p2 |-> p2] :
                    t1 \in Ids(MaxIdLen), p1 \in Ids(MaxIdLen),
                    t2 \in Ids(MaxIdLen), p2 \in Ids(MaxIdLen)}
    /\ ret = NoRet

BuildKeys(by1, by2) ==
    /\ ret' = [fn |-> "keys", by1 |-> by1, by2 |-> by2,
               k1 |-> KeyBuiltBy(by1, args.t1, args.p1),
               k2 |-> KeyBuiltBy(by2, args.t2, args.p2)]
    /\ UNCHANGED <<reservations, properties, cache, pc, req, result, outcome, trace, args>>

NextKey == \E by1 \in Builders, by2 \in Builders : BuildKeys(by1, by2)

SpecKey == InitKey /\ [][NextKey]_vars

----------------------------------------------------------------------------
(* The resolver as a function of every token payload and user record       *)

Missing == [py |-> "missing"]       \* marks a key the dict does not hold

TenantValues ==
    {PyNone, PyStr(""), PyStr("tenant-a"), PyStr("tenant-b"), PyStr("tenant-c")}

NamespaceOptions == {Missing, EmptyDict} \cup {[tenant_id |-> v] : v \in TenantValues}
RootOptions == {Missing} \cup TenantValues

MakeDict(um, am, root) ==
    [k \in (IF um # Missing THEN {"user_metadata"} ELSE {})
           \cup (IF am # Missing THEN {"app_metadata"} ELSE {})
           \cup (IF root # Missing THEN {"tenant_id"} ELSE {}) |->
        IF k = "user_metadata" THEN um ELSE IF k = "app_metadata" THEN am ELSE root]

ClaimDicts ==
    {MakeDict(um, am, root) : um \in NamespaceOptions, am \in NamespaceOptions,
                              root \in RootOptions}

Emails == {"sunset@propertyflow.com", "ocean@propertyflow.com",
           "candidate@propertyflow.com", "guest@example.com"}

InitResolver ==
    /\ Baseline
    /\ args \in {[fn |-> "token", user_id |-> "u1", user_email |-> e, token_payload |-> d] :
                    e \in Emails, d \in ClaimDicts \cup {PyNone}}
               \cup {[fn |-> "user", user_data |-> d] : d \in ClaimDicts}
    /\ ret = NoRet

ResolveTenantId ==
    /\ args.fn = "token"
    /\ ret' = [fn |-> "resolve_tenant_id",
               value |-> resolve_tenant_id(args.user_id, args.user_email, args.token_payload)]
    /\ UNCHANGED <<reservations, properties, cache, pc, req, result, outcome, trace, args>>

ResolveTenantFromToken ==
    /\ args.fn = "token"
    /\ args.token_payload # PyNone
    /\ ret' = [fn |-> "resolve_tenant_from_token",
               value |-> resolve_tenant_from_token(args.token_payload)]
    /\ UNCHANGED <<reservations, properties, cache, pc, req, result, outcome, trace, args>>

ResolveTenantFromUser ==
    /\ args.fn = "user"
    /\ ret' = [fn |-> "resolve_tenant_from_user",
               value |-> resolve_tenant_from_user(args.user_data)]
    /\ UNCHANGED <<reservations, properties, cache, pc, req, result, outcome, trace, args>>

NextResolver == ResolveTenantId \/ ResolveTenantFromToken \/ ResolveTenantFromUser

SpecResolver == InitResolver /\ [][NextResolver]_vars

----------------------------------------------------------------------------
(* The guards of the dashboard as a function of the caller, the properties *)
(* table and two requested properties                                      *)

AllPropertyRows == {[id |-> p, tenant_id |-> t] : p \in RequestedIds, t \in Tenants}

InitDash ==
    /\ Baseline
    /\ args \in {[fn |-> "dashboard", user_tenant |-> u, table |-> tb,
                  p1 |-> p1, ok1 |-> ok1, p2 |-> p2, ok2 |-> ok2] :
                    u \in UserTenants, tb \in SUBSET AllPropertyRows,
                    p1 \in RequestedIds, ok1 \in BOOLEAN,
                    p2 \in RequestedIds, ok2 \in BOOLEAN}
    /\ ret = NoRet

AnswerBoth ==
    /\ ret' = [fn |-> "dashboard",
               r1 |-> DashboardGuards(args.user_tenant, args.p1, args.table, args.ok1).response,
               r2 |-> DashboardGuards(args.user_tenant, args.p2, args.table, args.ok2).response]
    /\ UNCHANGED <<reservations, properties, cache, pc, req, result, outcome, trace, args>>

NextDash == AnswerBoth

SpecDash == InitDash /\ [][NextDash]_vars

----------------------------------------------------------------------------
(* services/reservations.py: calculate_monthly_revenue as a function of    *)
(* the month, the year, the property_timezone argument and the timezone    *)
(* the property is configured with                                         *)

Years == {2022 + i : i \in 1 .. MaxYears}
Months == 1 .. 12
Zones == {"UTC", "Asia/Kolkata", "Pacific/Honolulu", "America/New_York"}

\* datetime(year, month, day, hour, minute, 0), naive
DateTime(year, month, day, hour, minute) ==
    [year |-> year, month |-> month, day |-> day, hour |-> hour, minute |-> minute]

IsLeap(year) == year % 4 = 0 /\ (year % 100 # 0 \/ year % 400 = 0)

DaysInMonth(year, month) ==
    IF month = 2 THEN (IF IsLeap(year) THEN 29 ELSE 28)
    ELSE IF month \in {4, 6, 9, 11} THEN 30 ELSE 31

\* days from 2023-01-01 to the first day of the year
RECURSIVE DaysBeforeYear(_)
DaysBeforeYear(year) ==
    IF year <= 2023 THEN 0
    ELSE DaysBeforeYear(year - 1) + (IF IsLeap(year - 1) THEN 366 ELSE 365)

RECURSIVE DaysBeforeMonth(_, _)
DaysBeforeMonth(year, month) ==
    IF month = 1 THEN 0
    ELSE DaysBeforeMonth(year, month - 1) + DaysInMonth(year, month - 1)

\* the wall clock of a naive datetime in minutes since 2023-01-01 00:00
WallMinutes(dt) ==
    ((DaysBeforeYear(dt.year) + DaysBeforeMonth(dt.year, dt.month) + dt.day - 1) * 24
        + dt.hour) * 60 + dt.minute

\* pytz: the zone's offset from UTC, in minutes, at a local midnight on the
\* first of a month (New York is on daylight time from the second Sunday
\* of March to the first Sunday of November, 02:00)
UtcOffset(zone, dt) ==
    CASE zone = "UTC" -> 0
      [] zone = "Asia/Kolkata" -> 330
      [] zone = "Pacific/Honolulu" -> 0 - 600
      [] zone = "America/New_York" -> IF dt.month \in 4 .. 11 THEN 0 - 240 ELSE 0 - 300

\* reservations.py:28-29  tz.localize(datetime(...))
Localize(zone, dt) == [wall |-> dt, zone |-> zone, utcoffset |-> UtcOffset(zone, dt)]

\* reservations.py:37-38  .astimezone(timezone.utc), as minutes since
\* 2023-01-01 00:00 UTC
AsTimezoneUtc(aware) == WallMinutes(aware.wall) - aware.utcoffset

\* reservations.py:31-34
EndDate(zone, year, month) ==
    IF month < 12
    THEN Localize(zone, DateTime(year, month + 1, 1, 0, 0))
    ELSE Localize(zone, DateTime(year + 1, 1, 1, 0, 0))

Omitted == [py |-> "omitted"]       \* the argument was not passed

\* reservations.py:14 the default of the parameter, and 24-25
TimezoneInEffect(property_timezone, configured_timezone) ==
    LET given == IF property_timezone = Omitted THEN PyStr("UTC") ELSE property_timezone IN
    IF ~Truthy(given) THEN configured_timezone ELSE given.v

\* reservations.py:9-58.  The bounds are computed and logged (lines 28-42);
\* the query text of lines 45-52 is never executed (lines 54-56 are
\* comments), nothing is read from the store, and line 58 returns
\* Decimal('0') whatever the arguments.
calculate_monthly_revenue(property_id, month, year, tenant_id, property_timezone, configured_timezone) ==
    LET zone == TimezoneInEffect(property_timezone, configured_timezone)
        start_date == Localize(zone, DateTime(year, month, 1, 0, 0))
        end_date == EndDate(zone, year, month)
    IN  [fn |-> "monthly",
         timezone |-> zone,
         start_date |-> start_date,
         end_date |-> end_date,
         start_date_utc |-> AsTimezoneUtc(start_date),
         end_date_utc |-> AsTimezoneUtc(end_date),
         value |-> PyDecimal(0)]

TimezoneArguments == {Omitted, PyNone, PyStr("")} \cup {PyStr(z) : z \in Zones}

\* the reservations table the function is meant to read: empty, or one
\* reservation of the pair checked in on the 15th of the month, 00:00 UTC
ReservationTables(year, month) ==
    {{}, {[property_id |-> "p1", tenant_id |-> "t1", total_amount |-> 150,
           check_in_date |-> WallMinutes(DateTime(year, month, 15, 0, 0))]}}

InitMonthly ==
    /\ Baseline
    /\ \E y \in Years, m \in Months :
          args \in {[fn |-> "monthly", property_id |-> "p1", tenant_id |-> "t1",
                     month |-> m, year |-> y, property_timezone |-> z,
                     configured_timezone |-> cz, table |-> tb] :
                       z \in TimezoneArguments, cz \in Zones,
                       tb \in ReservationTables(y, m)}
    /\ ret = NoRet

CalculateMonthlyRevenue ==
    /\ args.fn = "monthly"
    /\ ret = NoRet
    /\ ret' = calculate_monthly_revenue(args.property_id, args.month, args.year,
                                        args.tenant_id, args.property_timezone,
                                        args.configured_timezone)
    /\ UNCHANGED <<reservations, properties, cache, pc, req, result, outcome, trace, args>>

NextMonthly == CalculateMonthlyRevenue

SpecMonthly == InitMonthly /\ [][NextMonthly]_vars

----------------------------------------------------------------------------
(* api/v1/auth_info.py: GET /auth/me as a function of the caller, the      *)
(* token payload and the smart views assigned to the caller                *)

\* auth_info.py:106 `if tenant_id and not user.is_admin:` is indented by six
\* columns inside a block indented by eight: compiling the module raises
\* IndentationError, so importing it fails and no statement of it runs
ImportAuthInfo ==
    Raised("IndentationError: unindent does not match any outer indentation level (auth_info.py, line 106)")

\* auth_info.py:47-156: the handler exists only if its module was imported
get_current_user_info(user, token_payload, assigned_views) ==
    ImportAuthInfo

Permission(section, action) == [section |-> section, action |-> action]

BasePermissionLists ==
    {<<>>, <<Permission("reservations", "read")>>,
     <<Permission("reservations", "read"), Permission("reports", "write")>>}

AssignedViewLists == {<<>>, <<"v1">>, <<"v1", "v2">>}

TokenPayloads ==
    {PyNone, EmptyDict, [tenant_id |-> PyStr("tenant-c")],
     [app_metadata |-> [tenant_id |-> PyStr("tenant-b")]]}

InitAuth ==
    /\ Baseline
    /\ args \in {[fn |-> "auth_me",
                  user |-> [id |-> "u1", email |-> e, is_admin |-> a, permissions |-> ps],
                  token_payload |-> d, assigned_views |-> vs] :
                    e \in Emails, a \in BOOLEAN, ps \in BasePermissionLists,
                    d \in TokenPayloads, vs \in AssignedViewLists}
    /\ ret = NoRet

GetCurrentUserInfo ==
    /\ args.fn = "auth_me"
    /\ ret = NoRet
    /\ ret' = [fn |-> "get_current_user_info",
               value |-> get_current_user_info(args.user, args.token_payload,
                                               args.assigned_views)]
    /\ UNCHANGED <<reservations, properties, cache, pc, req, result, outcome, trace, args>>

NextAuth == GetCurrentUserInfo

SpecAuth == InitAuth /\ [][NextAuth]_vars

----------------------------------------------------------------------------
(* Concurrent get_revenue_summary calls for one pair on an empty cache,    *)
(* with the store unchanged and the cache and the store healthy.  Each     *)
(* await of cache.py:31, 42 and 50 is a point where another call may run.  *)

ConcCallers == 1 .. NumCallers

ReservationRows ==
    {[tenant_id |-> t, property_id |-> p, total_amount |-> a] :
        t \in Tenants, p \in PropertyIds, a \in Amounts}

RECURSIVE StoresOfLength(_)
StoresOfLength(n) ==
    IF n = 0 THEN {<<>>}
    ELSE {Append(s, r) : s \in StoresOfLength(n - 1), r \in ReservationRows}

Stores == UNION {StoresOfLength(n) : n \in 0 .. MaxReservations}

InitConc ==
    /\ reservations \in Stores
    /\ properties = PropertyRows
    /\ cache = [k \in Keys |-> NoEntry]
    /\ InitRequests(ConcCallers)
    /\ args \in {[fn |-> "concurrent", property_id |-> p, tenant_id |-> t] :
                    p \in PropertyIds, t \in Tenants}
    /\ ret = NoRet

NextConc ==
    \/ \E c \in ConcCallers : GetRevenueSummary(c, args.property_id, args.tenant_id)
    \/ \E c \in ConcCallers : CacheGet(c, TRUE)
    \/ \E c \in ConcCallers : Calculate(c, TRUE)
    \/ \E c \in ConcCallers : CacheSetex(c, TRUE)

\* the event loop runs every ready coroutine, and every awaited call on a
\* healthy cache or store completes
SpecConc == InitConc /\ [][NextConc]_vars /\ WF_vars(NextConc)

----------------------------------------------------------------------------
(* The write path against calls in flight: reservations of one pair are    *)
(* booked, invalidate_revenue_cache runs for the pair, and concurrent      *)
(* get_revenue_summary calls for the pair read, aggregate and write.       *)
(* Cache and store are healthy.                                            *)

\* cache.py:65-72 with the delete succeeding; ret keeps what the store held
\* when the call returned and which callers had not started a call by then
InvalidateReturns(property_id, tenant_id) ==
    /\ cache' = [cache EXCEPT ![invalidate_cache_key(tenant_id, property_id)] = NoEntry]
    /\ ret' = [fn |-> "invalidate_revenue_cache",
               store |-> reservations,
               not_started |-> {c \in DOMAIN pc : pc[c] = "idle"}]
    /\ UNCHANGED <<reservations, properties, pc, req, result, outcome, trace, args>>

InitStale ==
    /\ reservations = <<>>
    /\ properties = PropertyRows
    /\ cache = [k \in Keys |-> NoEntry]
    /\ InitRequests(ConcCallers)
    /\ args \in {[fn |-> "write_path", property_id |-> p, tenant_id |-> t] :
                    p \in PropertyIds, t \in Tenants}
    /\ ret = NoRet

NextStale ==
    \/ \E c \in ConcCallers : GetRevenueSummary(c, args.property_id, args.tenant_id)
    \/ \E c \in ConcCallers : CacheGet(c, TRUE)
    \/ \E c \in ConcCallers : Calculate(c, TRUE)
    \/ \E c \in ConcCallers : CacheSetex(c, TRUE)
    \/ \E a \in Amounts : AddReservation(args.tenant_id, args.property_id, a)
    \/ InvalidateReturns(args.property_id, args.tenant_id)

SpecStale == InitStale /\ [][NextStale]_vars

----------------------------------------------------------------------------
(* Vocabulary of the properties *)

Requests == DOMAIN pc

\* get_revenue_summary handed a summary back (to the dashboard: a 200)
Succeeded(c) ==
    \/ outcome[c].kind = "returned"
    \/ outcome[c].kind = "http" /\ outcome[c].response.status = 200

\* get_revenue_summary let an exception escape (to the dashboard: a 500)
Failed(c) ==
    \/ outcome[c].kind = "raised"
    \/ outcome[c].kind = "http" /\ outcome[c].response.status = 500
                                /\ outcome[c].response.detail = "Internal Server Error"

Occurs(c, events) == \E i \in 1 .. Len(trace[c]) : trace[c][i] \in events

\* the rows among the first n booked that belong to the pair
PairRows(n, property_id, tenant_id) ==
    {i \in 1 .. n : /\ reservations[i].property_id = property_id
                    /\ reservations[i].tenant_id = tenant_id}

RECURSIVE SumOver(_)
SumOver(is) ==
    IF is = {} THEN 0
    ELSE LET i == CHOOSE j \in is : TRUE IN reservations[i].total_amount + SumOver(is \ {i})

\* the summary is the aggregate of the pair's own rows at some moment of
\* the store's history, and says so
DerivedFromPair(summary, property_id, tenant_id) ==
    /\ summary["tenant_id"] = PyStr(tenant_id)
    /\ summary["property_id"] = PyStr(property_id)
    /\ \E n \in 0 .. Len(reservations) :
          /\ summary["count"] = PyInt(Cardinality(PairRows(n, property_id, tenant_id)))
          /\ summary["total"] = PyStr(DecimalStr(SumOver(PairRows(n, property_id, tenant_id))))

ExistsUnder(rows, property_id, tenant_id) ==
    \E r \in rows : r.id = property_id /\ r.tenant_id = tenant_id

ExistsElsewhereOnly(rows, property_id, tenant_id) ==
    /\ ~ExistsUnder(rows, property_id, tenant_id)
    /\ \E r \in rows : r.id = property_id

ExistsNowhere(rows, property_id) == \A r \in rows : r.id # property_id

----------------------------------------------------------------------------
(* C1 *)

\* C1: every summary get_revenue_summary(p, t) returns carries tenant_id t
\* and property_id p and aggregates only reservations of p under t; a
\* summary computed for one tenant never reaches a call of another tenant.
C1_SummaryIsTenantScoped ==
    \A c \in Requests :
        (pc[c] = "done" /\ Succeeded(c) /\ result[c] # NoResult)
            => DerivedFromPair(result[c], req[c].property_id, TenantOf(c))

----------------------------------------------------------------------------
(* C2, C3 *)

\* C2: for one property and two different tenants the keys built by
\* get_revenue_summary and invalidate_revenue_cache differ, also when the
\* ids contain ':'.
C2_KeysDifferForOneProperty ==
    (ret.fn = "keys" /\ args.t1 # args.t2 /\ args.p1 = args.p2) => ret.k1 # ret.k2

\* two tenants, one a prefix of the other up to the separator, one property
\* that starts with the separator: the keys were built and differ
C2_Witness ==
    /\ ret.fn = "keys"
    /\ args.t1 = "a:" /\ args.t2 = "a" /\ args.p1 = ":a" /\ args.p2 = ":a"
    /\ ret.by1 = "get_revenue_summary" /\ ret.by2 = "invalidate_revenue_cache"
    /\ ret.k1 = "revenue:a:::a" /\ ret.k2 = "revenue:a::a"

\* C3: the key is injective in the (tenant_id, property_id) pair: pairs of
\* different tenants never render to the same key, whatever the ids hold.
C3_KeyInjectiveAcrossTenants ==
    (ret.fn = "keys" /\ args.t1 # args.t2) => ret.k1 # ret.k2

----------------------------------------------------------------------------
(* C4, C5, C6 *)

NonEmptyIn(d, namespace) ==
    /\ namespace \in DOMAIN d
    /\ "tenant_id" \in DOMAIN d[namespace]
    /\ Truthy(d[namespace]["tenant_id"])

NonEmptyAtRoot(d) == "tenant_id" \in DOMAIN d /\ Truthy(d["tenant_id"])

CarriedBy(d) ==
    {ns \in {"user_metadata", "app_metadata"} : NonEmptyIn(d, ns)}
        \cup (IF NonEmptyAtRoot(d) THEN {"root"} ELSE {})

\* the first non-empty tenant_id in the order user_metadata, app_metadata, root
TokenPriority(d) ==
    IF NonEmptyIn(d, "user_metadata") THEN d["user_metadata"]["tenant_id"]
    ELSE IF NonEmptyIn(d, "app_metadata") THEN d["app_metadata"]["tenant_id"]
    ELSE IF NonEmptyAtRoot(d) THEN d["tenant_id"]
    ELSE PyNone

\* the first non-empty tenant_id in the order root, user_metadata, app_metadata
UserPriority(d) ==
    IF NonEmptyAtRoot(d) THEN d["tenant_id"]
    ELSE IF NonEmptyIn(d, "user_metadata") THEN d["user_metadata"]["tenant_id"]
    ELSE IF NonEmptyIn(d, "app_metadata") THEN d["app_metadata"]["tenant_id"]
    ELSE PyNone

\* C4: a payload with a non-empty tenant_id in more than one namespace
\* resolves to the user_metadata value, else the app_metadata value, else the
\* root value; an empty value in a higher namespace is skipped.
C4_TokenNamespacePriority ==
    (/\ ret.fn \in {"resolve_tenant_id", "resolve_tenant_from_token"}
     /\ args.token_payload # PyNone
     /\ Cardinality(CarriedBy(args.token_payload)) >= 2)
        => ret.value = TokenPriority(args.token_payload)

\* user_metadata holds "", app_metadata and root hold different tenants:
\* resolve_tenant_id skipped the empty value and returned app_metadata's
C4_Witness ==
    /\ ret.fn = "resolve_tenant_id"
    /\ args.token_payload = MakeDict([tenant_id |-> PyStr("")],
                                     [tenant_id |-> PyStr("tenant-b")], PyStr("tenant-c"))
    /\ ret.value = PyStr("tenant-b")

\* C5: with no payload, or a payload without a tenant_id in any namespace,
\* resolve_tenant_id returns None for every user: never a tenant taken from
\* a user-email mapping in the resolver.
C5_NoTenantMeansAbsent ==
    (/\ ret.fn = "resolve_tenant_id"
     /\ (args.token_payload = PyNone \/ CarriedBy(args.token_payload) = {}))
        => ret.value = PyNone

\* C6: resolve_tenant_from_user returns the first non-empty tenant_id among
\* root, user_metadata, app_metadata, also when the root key is present but
\* empty; the result is absent only when no location holds a non-empty one.
C6_UserRecordFirstNonEmpty ==
    (/\ ret.fn = "resolve_tenant_from_user"
     /\ (\/ NonEmptyAtRoot(args.user_data)
         \/ NonEmptyIn(args.user_data, "user_metadata")
         \/ NonEmptyIn(args.user_data, "app_metadata")))
        => ret.value = UserPriority(args.user_data)

----------------------------------------------------------------------------
(* C7, C8, C9 *)

\* C7: a dashboard request of a caller with a tenant, for a property that
\* exists only under another tenant, with the properties store answering,
\* ends as 404 and carries no revenue data.
C7_WrongTenantIs404 ==
    \A c \in Requests :
        (/\ pc[c] = "done" /\ req[c].via = "dashboard"
         /\ Truthy(req[c].user_tenant)
         /\ trace[c] = <<"property_check">>
         /\ ExistsElsewhereOnly(properties, req[c].property_id, TenantOf(c)))
            => /\ outcome[c].response.status = 404
               /\ result[c] = NoResult

CacheOrStoreEvents ==
    {"cache_get", "cache_get_failed", "calculate", "calculate_failed", "setex", "setex_failed"}

\* C8: the dashboard reaches get_revenue_summary (cache and aggregator)
\* only after a tenant was resolved and the property check scoped by both
\* ids found a row; a caller without a tenant gets 403 and causes no
\* property lookup, no cache access and no aggregation.
C8_RevenueAfterGuards ==
    \A c \in Requests :
        req[c].via = "dashboard" =>
            /\ (pc[c] \in {"cache_get", "calculate", "setex", "fallback"}
                \/ Occurs(c, CacheOrStoreEvents) \/ result[c] # NoResult)
                  => /\ Truthy(req[c].user_tenant)
                     /\ trace[c][1] = "property_check"
                     /\ ExistsUnder(properties, req[c].property_id, TenantOf(c))
            /\ ~Truthy(req[c].user_tenant)
                  => /\ pc[c] = "done"
                     /\ outcome[c].response.status = 403
                     /\ trace[c] = <<>>
                     /\ result[c] = NoResult

\* a dashboard request passed both guards, missed the cache, aggregated,
\* stored and answered 200
C8_Witness ==
    \E c \in Requests :
        /\ pc[c] = "done" /\ req[c].via = "dashboard"
        /\ trace[c] = <<"property_check", "cache_get", "calculate", "setex">>
        /\ outcome[c].response.status = 200

\* C9: for one caller the reply to a request for a property that exists
\* under another tenant equals, status and body, the reply to a request for
\* a property that exists under no tenant.
C9_WrongTenantLikeNonexistent ==
    (/\ ret.fn = "dashboard"
     /\ args.ok1 /\ args.ok2
     /\ Truthy(args.user_tenant)
     /\ ExistsElsewhereOnly(args.table, args.p1, args.user_tenant.v)
     /\ ExistsNowhere(args.table, args.p2))
        => ret.r1 = ret.r2

\* tenant t1 asked for p1, which only t1:x owns, and for p9, which nobody
\* owns, and was refused both
C9_Witness ==
    /\ ret.fn = "dashboard"
    /\ args.ok1 /\ args.ok2
    /\ args.user_tenant = PyStr("t1")
    /\ args.table = {[id |-> "p1", tenant_id |-> "t1:x"]}
    /\ args.p1 = "p1" /\ args.p2 = "p9"
    /\ ret.r1 # Pass /\ ret.r2 # Pass

----------------------------------------------------------------------------
(* C10 *)

\* the store failed every time this call asked it, and it asked
StoreDownThroughout(c) ==
    /\ Occurs(c, {"calculate_failed"})
    /\ ~Occurs(c, {"calculate"})

----------------------------------------------------------------------------
(* C11 *)

CacheFailed(tr) ==
    \E i \in 1 .. Len(tr) : tr[i] \in {"cache_get_failed", "setex_failed"}

StoreHealthy(tr) == \A i \in 1 .. Len(tr) : tr[i] # "calculate_failed"

\* the summary is the aggregate of the pair's rows as the store holds them now
FreshFor(summary, property_id, tenant_id) ==
    LET mine == PairRows(Len(reservations), property_id, tenant_id) IN
    /\ DOMAIN summary = {"property_id", "tenant_id", "total", "currency", "count"}
    /\ summary["tenant_id"] = PyStr(tenant_id)
    /\ summary["property_id"] = PyStr(property_id)
    /\ summary["currency"] = PyStr("USD")
    /\ summary["count"] = PyInt(Cardinality(mine))
    /\ summary["total"] = PyStr(DecimalStr(SumOver(mine)))

Finishes(c) == pc[c] # "done" /\ pc'[c] = "done"

\* C11: when the cache fails on the read or on the write and the store is
\* healthy, get_revenue_summary does not fail: the call ends by returning
\* the summary computed from the store for its own pair at that moment,
\* which is what a successful miss returns.
C11_CacheFailureDegrades ==
    [][\A c \in Requests :
          (Finishes(c) /\ CacheFailed(trace'[c]) /\ StoreHealthy(trace'[c]))
              => /\ Succeeded(c)'
                 /\ FreshFor(result[c], req[c].property_id, TenantOf(c))'
                 /\ cache' = cache]_vars

\* a call missed, computed 1.50, could not write it, computed again and
\* returned 1.50
C11_Witness ==
    \E c \in Requests :
        /\ pc[c] = "done"
        /\ trace[c] = <<"cache_get", "calculate", "setex_failed", "calculate">>
        /\ outcome[c].kind = "returned"
        /\ outcome[c].value["total"] = PyStr("1.50")

----------------------------------------------------------------------------
(* C12 *)

KeyOf(c) == cache_key(TenantOf(c), req[c].property_id)

\* the call of c ends by writing its summary to the cache
WritesEntry(c) == pc[c] = "setex" /\ pc'[c] = "done"

\* the call of c ends by being served from the cache
ServedFromCache(c) == pc[c] = "cache_get" /\ pc'[c] = "done"

\* C12: the total survives the round trip through the cache as the same
\* decimal string and the other fields come back unchanged: the entry a
\* miss writes decodes to exactly the summary that miss returns, an entry's
\* text changes only when a miss writes it again, and a hit returns exactly
\* what the entry decodes to, its total a string.
C12_RoundTripKeepsSummary ==
    [][/\ \A c \in Requests :
            /\ WritesEntry(c) =>
                  /\ outcome'[c] = Delivered(c, result[c])
                  /\ result[c]["total"].py = "str"
                  /\ json_loads(cache'[KeyOf(c)].value) = result[c]
            /\ ServedFromCache(c) =>
                  /\ cache[KeyOf(c)] # NoEntry
                  /\ result'[c] = json_loads(cache[KeyOf(c)].value)
                  /\ outcome'[c] = Delivered(c, result'[c])
                  /\ result'[c]["total"].py = "str"
       /\ \A k \in Keys :
            (cache[k] # NoEntry /\ cache'[k] # NoEntry /\ cache'[k].value # cache[k].value)
                => \E c \in Requests : WritesEntry(c) /\ KeyOf(c) = k]_vars

\* a hit that returned the total "1.50" out of an entry a miss had written
C12_Witness ==
    \E c \in Requests :
        /\ pc[c] = "done"
        /\ trace[c] = <<"cache_get">>
        /\ outcome[c] = [kind |-> "returned", value |-> result[c]]
        /\ result[c]["total"] = PyStr("1.50")
        /\ result[c]["count"] = PyInt(1)
        /\ cache[KeyOf(c)] # NoEntry
        /\ cache[KeyOf(c)].value = json_dumps(result[c])

----------------------------------------------------------------------------
(* C13 *)

AggregatorEvents == {"calculate", "calculate_failed"}

\* C13: on a cache hit get_revenue_summary returns the stored entry as it
\* is: the call ends at the read with the entry's own content, without
\* calling calculate_total_revenue and so without a query to the store, and
\* the step leaves every cache entry and its remaining time to live, and the
\* store, as they were.
C13_HitReturnsEntryUntouched ==
    [][\A c \in Requests :
          (pc[c] = "cache_get" /\ trace'[c] = Append(trace[c], "cache_get")
                /\ cache[KeyOf(c)] # NoEntry)
              => /\ pc'[c] = "done"
                 /\ Succeeded(c)'
                 /\ json_dumps(result'[c]) = cache[KeyOf(c)].value
                 /\ outcome'[c] = Delivered(c, result'[c])
                 /\ ~Occurs(c, AggregatorEvents \cup {"setex", "setex_failed"})'
                 /\ cache' = cache
                 /\ reservations' = reservations]_vars

\* a hit on an entry half-way through its life: the entry keeps its
\* remaining time after the call, and what it says is returned although the
\* store no longer holds that for the pair
C13_Witness ==
    \E c \in Requests :
        /\ pc[c] = "done"
        /\ trace[c] = <<"cache_get">>
        /\ outcome[c].kind = "returned"
        /\ cache[KeyOf(c)] # NoEntry
        /\ cache[KeyOf(c)].ttl = CacheTtlSeconds - TickSeconds
        /\ json_dumps(result[c]) = cache[KeyOf(c)].value
        /\ ~FreshFor(result[c], req[c].property_id, TenantOf(c))

----------------------------------------------------------------------------
(* C14 *)

Step(c, from, event) == pc[c] = from /\ trace'[c] = Append(trace[c], event)

\* C14: on a miss with cache and store healthy, get_revenue_summary calls
\* the aggregator, writes the summary under the pair's key with 300 s to
\* live from that write, and returns that same summary; an entry's time to
\* live never grows except by such a write and never exceeds 300 s, so a hit
\* never serves an entry more than 300 s after it was written.
C14_MissComputesStoresReturns ==
    [][/\ \A c \in Requests :
            /\ (Step(c, "cache_get", "cache_get") /\ cache[KeyOf(c)] = NoEntry)
                  => pc'[c] = "calculate"
            /\ Step(c, "calculate", "calculate")
                  => /\ pc'[c] = "setex"
                     /\ FreshFor(result[c], req[c].property_id, TenantOf(c))'
            /\ Step(c, "setex", "setex")
                  => /\ pc'[c] = "done"
                     /\ cache' = [cache EXCEPT ![KeyOf(c)] =
                                     [value |-> json_dumps(result[c]), ttl |-> 300]]
                     /\ outcome'[c] = Delivered(c, result[c])
            /\ ServedFromCache(c) => cache[KeyOf(c)].ttl \in 1 .. 300
       /\ \A k \in Keys :
            cache'[k] # NoEntry
                => /\ cache'[k].ttl \in 1 .. 300
                   /\ \/ \E c \in Requests : Step(c, "setex", "setex") /\ KeyOf(c) = k
                      \/ cache[k] # NoEntry /\ cache'[k].ttl <= cache[k].ttl]_vars

\* a miss that computed 1.50, wrote it with 300 s to live and returned it
C14_Witness ==
    \E c \in Requests :
        /\ pc[c] = "done"
        /\ trace[c] = <<"cache_get", "calculate", "setex">>
        /\ result[c]["total"] = PyStr("1.50")
        /\ outcome[c] = [kind |-> "returned", value |-> result[c]]
        /\ cache[KeyOf(c)] = [value |-> json_dumps(result[c]), ttl |-> 300]

----------------------------------------------------------------------------
(* C15 *)

Pairs == Tenants \X PropertyIds

EntryOf(tenant_id, property_id) == cache[cache_key(tenant_id, property_id)]

\* C15: invalidate_revenue_cache(p, t) removes the cached summary of the
\* pair (t, p) and nothing else: the entry of every other pair is unchanged
\* by the call, the pair's next get_revenue_summary finds no entry, and a
\* failing cache backend leaves the cache alone without raising.
C15_InvalidateRemovesOnlyThePair ==
    [][\A p \in PropertyIds, t \in Tenants, ok \in BOOLEAN :
          InvalidateRevenueCache(p, t, ok)
              => /\ ok => EntryOf(t, p)' = NoEntry
                 /\ ~ok => cache' = cache
                 /\ \A other \in Pairs \ {<<t, p>>} :
                        EntryOf(other[1], other[2])' = EntryOf(other[1], other[2])]_vars

----------------------------------------------------------------------------
(* C16 *)

\* calculate_total_revenue ran for c in this step and the store answered
Aggregates(c) == Step(c, "calculate", "calculate") \/ Step(c, "fallback", "calculate")

NoRowMatches(c) == PairRows(Len(reservations), req[c].property_id, TenantOf(c)) = {}

\* C16: when no reservation matches the pair and the store is healthy,
\* calculate_total_revenue returns the summary of that property and tenant
\* with total "0.00" and count 0; it does not raise and the total is not
\* null.
C16_NoReservationsIsZero ==
    [][\A c \in Requests :
          (Aggregates(c) /\ NoRowMatches(c))
              => /\ result'[c] = [property_id |-> PyStr(req[c].property_id),
                                  tenant_id |-> PyStr(TenantOf(c)),
                                  total |-> PyStr("0.00"),
                                  currency |-> PyStr("USD"),
                                  count |-> PyInt(0)]
                 /\ pc'[c] \in {"setex", "done"}
                 /\ pc'[c] = "done" => Succeeded(c)']_vars

\* the store holds a reservation of the same property under another tenant,
\* none of the caller's, and the aggregator answered 0.00 and 0
C16_Witness ==
    \E c \in Requests :
        /\ pc[c] = "setex"
        /\ trace[c] = <<"cache_get", "calculate">>
        /\ NoRowMatches(c)
        /\ \E i \in 1 .. Len(reservations) :
              /\ reservations[i].property_id = req[c].property_id
              /\ reservations[i].tenant_id # TenantOf(c)
        /\ result[c]["total"] = PyStr("0.00")
        /\ result[c]["count"] = PyInt(0)

----------------------------------------------------------------------------
(* C17 *)

FirstOfMonth(year, month) == DateTime(year, month, 1, 0, 0)

FollowingMonth(year, month) ==
    IF month = 12 THEN [year |-> year + 1, month |-> 1] ELSE [year |-> year, month |-> month + 1]

\* what the query of reservations.py:45-52 selects: the amounts of the
\* pair's reservations checked in at or after `from` and before `to`
RECURSIVE TotalOf(_)
TotalOf(rows) ==
    IF rows = {} THEN 0
    ELSE LET r == CHOOSE x \in rows : TRUE IN r.total_amount + TotalOf(rows \ {r})

RevenueBetween(table, property_id, tenant_id, from, to) ==
    TotalOf({r \in table : /\ r.property_id = property_id
                           /\ r.tenant_id = tenant_id
                           /\ r.check_in_date >= from
                           /\ r.check_in_date < to})

\* C17: for every month and year calculate_monthly_revenue queries the
\* half-open interval [start, end): start is the local midnight of the 1st
\* of the month and end the local midnight of the 1st of the following
\* month (December rolls to January 1 of year+1), both fixed in the
\* timezone in effect and then shifted to UTC, start < end, the end of a
\* month is the start of the next one, and what the function returns is the
\* revenue of the reservations checked in within that interval.
C17_MonthIntervalIsQueried ==
    ret.fn = "monthly" =>
        LET next == FollowingMonth(args.year, args.month)
            after == calculate_monthly_revenue(args.property_id, next.month, next.year,
                         args.tenant_id, args.property_timezone, args.configured_timezone)
        IN  /\ ret.start_date.wall = FirstOfMonth(args.year, args.month)
            /\ ret.end_date.wall = FirstOfMonth(next.year, next.month)
            /\ ret.start_date.zone = ret.timezone
            /\ ret.end_date.zone = ret.timezone
            /\ ret.start_date_utc
                 = WallMinutes(ret.start_date.wall) - UtcOffset(ret.timezone, ret.start_date.wall)
            /\ ret.end_date_utc
                 = WallMinutes(ret.end_date.wall) - UtcOffset(ret.timezone, ret.end_date.wall)
            /\ ret.start_date_utc < ret.end_date_utc
            /\ ret.end_date_utc = after.start_date_utc
            /\ ret.value = PyDecimal(RevenueBetween(args.table, args.property_id,
                               args.tenant_id, ret.start_date_utc, ret.end_date_utc))

----------------------------------------------------------------------------
(* C18 *)

\* C18: when the caller of calculate_monthly_revenue does not pass
\* property_timezone, the month boundaries are taken in the timezone the
\* property is configured with (what get_property_timezone answers for the
\* property and tenant), not in a fixed default.
C18_OmittedTimezoneIsResolved ==
    (ret.fn = "monthly" /\ args.property_timezone = Omitted)
        => /\ ret.timezone = args.configured_timezone
           /\ ret.start_date.zone = args.configured_timezone
           /\ ret.end_date.zone = args.configured_timezone

----------------------------------------------------------------------------
(* C19 *)

TenantForAuth ==
    resolve_tenant_id(args.user.id, args.user.email, args.token_payload)

\* C19: /auth/me looks smart views up and appends smart_view_* read
\* permissions only when a tenant was resolved (with the token payload) and
\* the caller is not an administrator; an administrator, and a caller
\* without a resolved tenant, gets back exactly the base permissions.
C19_AdminOrNoTenantGetsBasePermissions ==
    (ret.fn = "get_current_user_info" /\ (args.user.is_admin \/ ~Truthy(TenantForAuth)))
        => /\ ~IsRaised(ret.value)
           /\ "permissions" \in DOMAIN ret.value
           /\ ret.value["permissions"] = args.user.permissions

----------------------------------------------------------------------------
(* C20 *)

MissTrace == <<"cache_get", "calculate", "setex">>

SharedKey == cache_key(args.tenant_id, args.property_id)

AllReturned == \A c \in Requests : pc[c] = "done"

\* what the finished calls hold is the pair's summary, and so is the entry
SameSummaryEverywhere ==
    /\ \A c \in Requests :
          pc[c] = "done" =>
              /\ outcome[c] = [kind |-> "returned", value |-> result[c]]
              /\ FreshFor(result[c], args.property_id, args.tenant_id)
              /\ \A d \in Requests : pc[d] = "done" => result[d] = result[c]
              /\ cache[SharedKey] # NoEntry
              /\ cache[SharedKey].value = json_dumps(result[c])
    /\ \A k \in Keys \ {SharedKey} : cache[k] = NoEntry

\* C20: in every interleaving of concurrent get_revenue_summary calls for
\* one pair on an empty cache, with the store unchanged and healthy, every
\* call terminates, all calls return the same summary, and the entry left
\* in the cache is that summary.  Nothing excludes one call while another
\* computes: all of them may miss and recompute.
C20_ConcurrentMissesAgree ==
    /\ []SameSummaryEverywhere
    /\ <>AllReturned

\* every call missed, so each read before any wrote and each recomputed;
\* all returned 1.50 and the entry says 1.50
C20_Witness ==
    /\ \A c \in Requests : pc[c] = "done" /\ trace[c] = MissTrace
    /\ Cardinality(Requests) >= 2
    /\ \A c \in Requests : result[c]["total"] = PyStr("1.50")
    /\ \E c \in Requests : cache[SharedKey].value = json_dumps(result[c])

----------------------------------------------------------------------------
(* C21 *)

\* the summary aggregates the pair's rows among the first n booked
ComputedFromPrefix(summary, n) ==
    /\ summary["count"] = PyInt(Cardinality(PairRows(n, args.property_id, args.tenant_id)))
    /\ summary["total"] = PyStr(DecimalStr(SumOver(PairRows(n, args.property_id, args.tenant_id))))

\* C21: cached revenue does not go stale past an invalidation: once the
\* store has changed for the pair and invalidate_revenue_cache for the pair
\* has returned, a get_revenue_summary call for the pair that starts
\* afterwards returns a summary computed from the store as it was at the
\* invalidation or later, never from the store before the change, whatever
\* calls were in flight at that moment.
C21_NoStaleSummaryAfterInvalidation ==
    ret.fn = "invalidate_revenue_cache" =>
        \A c \in ret.not_started :
            pc[c] = "done" =>
                \E n \in Len(ret.store) .. Len(reservations) :
                    ComputedFromPrefix(result[c], n)

----------------------------------------------------------------------------
(* C22 *)

AggregatorCalls(tr) == Cardinality({i \in 1 .. Len(tr) : tr[i] \in AggregatorEvents})

\* C22: one call of get_revenue_summary invokes calculate_total_revenue at
\* most once whatever its outcome (hit, miss, cache read failure, cache
\* write failure, store failure), and not at all on a hit.
C22_AggregatorAtMostOncePerCall ==
    \A c \in Requests :
        /\ AggregatorCalls(trace[c]) <= 1
        /\ (pc[c] = "done" /\ trace[c] # <<>> /\ trace[c][Len(trace[c])] = "cache_get")
              => AggregatorCalls(trace[c]) = 0

====
